---------------------------- MODULE Spec2Model ----------------------------
(***************************************************************************)
(* A model of plugin-solana-trading: the MarketMonitor (per-pair fetch     *)
(* timers, rolling price history, indicator enrichment, persistence and    *)
(* alert evaluation) and the SolanaTradingBot decision engine (suitability *)
(* gate, signal, sizing, stop-loss / take-profit, order submission).       *)
(*                                                                         *)
(* Every `await` of the source is a point where another callback may run,  *)
(* so every action below is the code between two awaits.  The collaborators*)
(* (agentKit, solanaPlugin, trustDB) answer nondeterministically: each     *)
(* call either resolves with a value of a small domain or rejects.         *)
(*                                                                         *)
(* Prices, sizes, stop-loss and take-profit levels of the decision engine  *)
(* are fixed-point numbers in units of 1/1000.                             *)
(***************************************************************************)
EXTENDS Integers, Sequences, FiniteSets, Bags, TLC

(***************************************************************************)
(* Bounds of the model.                                                    *)
(***************************************************************************)
\* fetches (initial fetches and timer ticks together) the monitor may begin
MaxFetches == 3
\* the largest reading of the clock (Date.now())
MaxTime == 1
\* decision-loop callbacks that may begin
MaxCycles == 2
\* snapshots the monitor may store while the decision loop runs
MaxSnapshots == 2
\* the longest price sequence, the largest price and the largest period the
\* functions of TechnicalAnalysis are called with
MaxLen == 4
MaxPrice == 3
MaxPeriod == 3

(***************************************************************************)
(* Configuration (BotConfig / MonitoringConfig), as loaded.                *)
(***************************************************************************)
\* config.trading.pairs, in list order
TradingPairs ==
    << [name |-> "SOL", enabled |-> TRUE],
       [name |-> "BONK", enabled |-> FALSE] >>

PairNames == { TradingPairs[i].name : i \in 1..Len(TradingPairs) }

\* MonitoringConfig: indicator periods and alert thresholds
MonitoringConfig ==
    [ indicators |-> [ ema |-> <<1, 2>>,
                       volatility |-> [ bbPeriod |-> 1 ] ],
      volumeThreshold |-> 100,
      alertThresholds |-> [ priceChange |-> 5, volumeSpike |-> 2, lowLiquidity |-> 500 ] ]

Max(a, b) == IF a >= b THEN a ELSE b

Abs(x) == IF x < 0 THEN 0 - x ELSE x

RECURSIVE MaxOfSeq(_)
MaxOfSeq(s) == IF Len(s) = 1 THEN s[1] ELSE Max(s[1], MaxOfSeq(Tail(s)))

\* Math.max(...config.indicators.ema, bbPeriod * 2)
maxPeriod ==
    Max(MaxOfSeq(MonitoringConfig.indicators.ema),
        MonitoringConfig.indicators.volatility.bbPeriod * 2)

(***************************************************************************)
(* What the market-data collaborators may answer.                          *)
(***************************************************************************)
\* What agentKit.getQuote (price) and solanaPlugin.getMarketInfo (the rest)
\* answer for one fetch: a calm market, and one that raises alerts.  Price and
\* volume identify the sample, so the alignment of the history sequences shows.
MarketSamples ==
    { [price |-> 100, volume24h |-> 100, liquidity |-> 1000, priceChange24h |-> 2],
      [price |-> 101, volume24h |-> 300, liquidity |-> 1000, priceChange24h |-> 0 - 10] }

\* Answers on either side of each alert threshold, in every combination: a
\* 24h price change of 5 % or -6 % (threshold 5), a volume of 200 or 201
\* (threshold 100 * 2), a liquidity of 500 or 499 (threshold 500)
AlertSamples ==
    { [price |-> 100, volume24h |-> v, liquidity |-> l, priceChange24h |-> c] :
        v \in {200, 201}, l \in {500, 499}, c \in {5, 0 - 6} }

NoSample == [price |-> 0, volume24h |-> 0, liquidity |-> 0, priceChange24h |-> 0]

VARIABLES
    now,             \* the last reading of the clock (Date.now())
    trustDB,         \* the persistent store: key -> value
    isMonitoring,    \* MarketMonitor.isMonitoring
    updateIntervals, \* MarketMonitor.updateIntervals: pair -> timer id (0: no entry)
    timers,          \* the interval timers registered with the runtime: <<pair, id>>
    nextTimer,       \* the id the runtime gives the next setInterval timer
    priceHistory,    \* MarketMonitor.priceHistory: a Map, pair -> the four sequences
    ticks,           \* ticks[p]: the interval callbacks of pair p in flight (a bag)
    initJob,         \* the initial fetch/update of initializePairMonitoring
    fetches,         \* fetches begun so far
    startPc,         \* MarketMonitor.start(): "idle", "init", "next", "done", "failed"
    startIdx,        \* the index into the pair list start() is at
    stopped,         \* stop() has run since start() was last called (a history variable)
    activeAlerts,    \* the last call of getActiveAlerts and what it returned
    calc             \* the last call of a TechnicalAnalysis function: its input and result

VARIABLES
    pairs,           \* config.trading.pairs, the list start(pairs) is given
    isRunning,       \* SolanaTradingBot.isRunning
    botPc,           \* SolanaTradingBot.start(): "idle", "running", "failed"
    decisionTimers,  \* the decision-loop interval timers registered with the runtime
    cycles,          \* the decision-loop callbacks in flight (a bag)
    cyclesBegun,     \* decision-loop callbacks begun so far
    snapshots,       \* snapshots the monitor has stored for the decision loop so far
    venueOrders,     \* the orders the execution venue has accepted: id -> order
    lastEval,        \* the last evaluation of a pair that has ended (a history variable)
    closing,         \* closeAllPositions: where it is, the positions left, those attempted
    config,          \* SolanaTradingBot.config: the settings object, of which the risk part
    loadedRisk       \* the risk part of the settings as they were loaded (a history variable)

monitorVars ==
    << isMonitoring, updateIntervals, timers, nextTimer, priceHistory, ticks, initJob,
       fetches, startPc, startIdx, stopped, activeAlerts, calc >>

botVars ==
    << pairs, isRunning, botPc, decisionTimers, cycles, cyclesBegun, snapshots, venueOrders,
       lastEval, closing, config, loadedRisk >>

vars == << now, trustDB, monitorVars, botVars >>

\* no TechnicalAnalysis function has been called
NoCalc == [ fn |-> "none", prices |-> << >>, period |-> 0, result |-> << >> ]

\* getActiveAlerts has not been called
NoAnswer == [ called |-> FALSE, pair |-> "", since |-> 0, resolved |-> FALSE, alerts |-> << >> ]

\* a call that is not running
IdleJob ==
    [ pc |-> "idle", data |-> NoSample, timestamp |-> 0, seen |-> << >>, alertKey |-> 0 ]

EmptyHistory == [ prices |-> << >>, highs |-> << >>, lows |-> << >>, volumes |-> << >> ]

(***************************************************************************)
(* trustDB                                                                 *)
(***************************************************************************)
\* trustDB.set(key, value), Map.prototype.set(key, value)
DbSet(db, key, value) ==
    [ k \in (DOMAIN db) \cup {key} |-> IF k = key THEN value ELSE db[k] ]

CurrentKey(p) == <<"market", p, "current">>
HistoryKey(p, t) == <<"market", p, "history", t>>
AlertsKey(p, t) == <<"alerts", p, t>>
OrderKey(id) == <<"orders", id>>

(***************************************************************************)
(* MarketMonitor.updateMarketData: the history update                      *)
(***************************************************************************)
\* Array.prototype.slice(-n)
SliceLast(s, n) == IF Len(s) <= n THEN s ELSE SubSeq(s, Len(s) - n + 1, Len(s))

\* the four push calls
Pushed(h, d) ==
    [ prices  |-> Append(h.prices,  d.price),
      volumes |-> Append(h.volumes, d.volume24h),
      highs   |-> Append(h.highs,   d.price),
      lows    |-> Append(h.lows,    d.price) ]

\* a truncation that keeps the first maxPeriod volumes instead of the last
TruncatedVolumesFromFront(h) ==
    IF Len(h.prices) > maxPeriod
    THEN [ prices  |-> SliceLast(h.prices, maxPeriod),
           highs   |-> SliceLast(h.highs, maxPeriod),
           lows    |-> SliceLast(h.lows, maxPeriod),
           volumes |-> SubSeq(h.volumes, 1, maxPeriod) ]
    ELSE h

\* "Manage history size": the four slice(-maxPeriod) assignments
Truncated(h) ==
    IF Len(h.prices) > maxPeriod
    THEN [ prices  |-> SliceLast(h.prices, maxPeriod),
           highs   |-> SliceLast(h.highs, maxPeriod),
           lows    |-> SliceLast(h.lows, maxPeriod),
           volumes |-> SliceLast(h.volumes, maxPeriod) ]
    ELSE h

\* calculateIndicators: the indicator bundle is a function of the history
\* sequences it reads; the bundle is represented by the sequences read
calculateIndicators(h) ==
    [ prices |-> h.prices, highs |-> h.highs, lows |-> h.lows ]

(***************************************************************************)
(* MarketMonitor.checkAlertConditions: the alerts of one evaluation        *)
(***************************************************************************)
\* an evaluation that compares the signed price change with the threshold
checkAlertsSignedChange(data, t) ==
    (IF data.priceChange24h > MonitoringConfig.alertThresholds.priceChange
     THEN << [type |-> "PRICE_CHANGE", severity |-> "HIGH", timestamp |-> t] >>
     ELSE << >>)
    \o
    (IF data.volume24h >
          MonitoringConfig.volumeThreshold * MonitoringConfig.alertThresholds.volumeSpike
     THEN << [type |-> "VOLUME_SPIKE", severity |-> "MEDIUM", timestamp |-> t] >>
     ELSE << >>)
    \o
    (IF data.liquidity < MonitoringConfig.alertThresholds.lowLiquidity
     THEN << [type |-> "LOW_LIQUIDITY", severity |-> "HIGH", timestamp |-> t] >>
     ELSE << >>)

checkAlertConditions(data, t) ==
    (IF Abs(data.priceChange24h) > MonitoringConfig.alertThresholds.priceChange
     THEN << [type |-> "PRICE_CHANGE", severity |-> "HIGH", timestamp |-> t] >>
     ELSE << >>)
    \o
    (IF data.volume24h >
          MonitoringConfig.volumeThreshold * MonitoringConfig.alertThresholds.volumeSpike
     THEN << [type |-> "VOLUME_SPIKE", severity |-> "MEDIUM", timestamp |-> t] >>
     ELSE << >>)
    \o
    (IF data.liquidity < MonitoringConfig.alertThresholds.lowLiquidity
     THEN << [type |-> "LOW_LIQUIDITY", severity |-> "HIGH", timestamp |-> t] >>
     ELSE << >>)

(***************************************************************************)
(* The monitor's state after construction.                                 *)
(***************************************************************************)
MonitorInit ==
    /\ isMonitoring = FALSE
    /\ updateIntervals = [p \in PairNames |-> 0]
    /\ timers = {}
    /\ nextTimer = 1
    /\ priceHistory = << >>
    /\ ticks = [p \in PairNames |-> EmptyBag]
    /\ initJob = IdleJob
    /\ fetches = 0
    /\ startPc = "idle"
    /\ startIdx = 0
    /\ stopped = FALSE
    /\ activeAlerts = NoAnswer
    /\ calc = NoCalc

\* the call that has just called fetchMarketData
NewJob == [IdleJob EXCEPT !.pc = "fetch"]

\* The fetch/update calls of pair p in flight, each <<job, init>>: the interval
\* callbacks, and (init) the initial call of initializePairMonitoring
Calls(p) ==
    { <<j, FALSE>> : j \in BagToSet(ticks[p]) }
    \cup (IF startPc = "init" /\ pairs[startIdx].name = p /\ initJob.pc # "idle"
          THEN { <<initJob, TRUE>> } ELSE {})

\* call c of pair p goes on as job j2
Becomes(p, c, j2) ==
    IF c[2]
    THEN /\ initJob' = j2
         /\ UNCHANGED ticks
    ELSE /\ ticks' = [ticks EXCEPT ![p] =
                         (@ (-) SetToBag({c[1]}))
                         (+) (IF j2.pc = "idle" THEN EmptyBag ELSE SetToBag({j2}))]
         /\ UNCHANGED initJob

\* where a call goes when its fetch/update part is over: an interval callback
\* ends, initializePairMonitoring goes on to setInterval.  (Here and below, the
\* fields of a job that the call does not read again are reset.)
Finish(c) == IF c[2] THEN [IdleJob EXCEPT !.pc = "setInterval"] ELSE IdleJob

\* the enriched MarketData of a job ({...data, indicators})
Enriched(j) ==
    [ price |-> j.data.price, timestamp |-> j.timestamp,
      volume24h |-> j.data.volume24h, liquidity |-> j.data.liquidity,
      priceChange24h |-> j.data.priceChange24h, indicators |-> j.seen ]

\* the job is inside updateMarketData
InUpdate(j) == j.pc \in {"storeCurrent", "storeHistory", "checkAlerts", "storeAlerts", "truncate"}

\* the readings Date.now() may give: the clock never goes back
DateNow == now..MaxTime

(***************************************************************************)
(* start(pairs): the loop over the pairs; each enabled pair is initialised *)
(* by initializePairMonitoring, which start awaits.                        *)
(***************************************************************************)
\* the first enabled pair at index >= i, or 0
NextEnabled(i) ==
    LET S == { j \in i..Len(pairs) : pairs[j].enabled }
    IN  IF S = {} THEN 0 ELSE CHOOSE j \in S : \A m \in S : j <= m

\* the loop of start() from index i up to its next await: the next enabled
\* pair's history is reset and its initial fetch begins, or the loop ends
StartLoop(i) ==
    LET j == NextEnabled(i) IN
    IF j = 0
    THEN /\ isMonitoring' = TRUE
         /\ startPc' = "done"
         /\ UNCHANGED << priceHistory, initJob, fetches, startIdx >>
    ELSE /\ priceHistory' = DbSet(priceHistory, pairs[j].name, EmptyHistory)
         /\ initJob' = NewJob
         /\ fetches' = fetches + 1
         /\ startPc' = "init"
         /\ startIdx' = j
         /\ UNCHANGED isMonitoring

StartCall ==
    /\ startPc = "idle"
    /\ StartLoop(1)
    /\ UNCHANGED << now, trustDB, updateIntervals, timers, nextTimer, ticks, botVars >>
    /\ stopped' = FALSE
    /\ UNCHANGED << activeAlerts, calc >>

StartNext ==
    /\ startPc = "next"
    /\ StartLoop(startIdx + 1)
    /\ UNCHANGED << now, trustDB, updateIntervals, timers, nextTimer, ticks, botVars >>
    /\ UNCHANGED << stopped, activeAlerts, calc >>

\* initializePairMonitoring after its initial fetch/update: setInterval and
\* updateIntervals.set
InitSetInterval ==
    /\ startPc = "init"
    /\ initJob.pc = "setInterval"
    /\ LET p == pairs[startIdx].name IN
       /\ timers' = timers \cup {<<p, nextTimer>>}
       /\ updateIntervals' = [updateIntervals EXCEPT ![p] = nextTimer]
    /\ nextTimer' = nextTimer + 1
    /\ initJob' = IdleJob
    /\ startPc' = "next"
    /\ UNCHANGED << now, trustDB, isMonitoring, priceHistory, ticks, fetches, startIdx,
                    botVars >>
    /\ UNCHANGED << stopped, activeAlerts, calc >>

(***************************************************************************)
(* The interval callback of a pair, and fetchMarketData.                   *)
(***************************************************************************)
\* the runtime calls the callback of a live timer of pair p: it returns at once
\* when isMonitoring is false, else it calls fetchMarketData
TimerFires(p) ==
    /\ \E t \in timers : t[1] = p
    /\ \/ /\ ~isMonitoring
          /\ UNCHANGED vars
       \/ /\ isMonitoring
          /\ fetches < MaxFetches
          /\ ticks' = [ticks EXCEPT ![p] = @ (+) SetToBag({NewJob})]
          /\ fetches' = fetches + 1
          /\ UNCHANGED << now, trustDB, isMonitoring, updateIntervals, timers, nextTimer,
                          priceHistory, initJob, startPc, startIdx, botVars >>
    /\ UNCHANGED << stopped, activeAlerts, calc >>

\* a fetchMarketData whose rejection leaves the caller
fetchMarketDataThrows(c) == IdleJob

\* fetchMarketData's catch block returns null and the caller, which tests
\* "if (data)", skips updateMarketData
fetchMarketDataCatch(c) == Finish(c)

\* fetchMarketData returns.  agentKit.getQuote and solanaPlugin.getMarketInfo
\* have both resolved and the MarketData is built (timestamp: Date.now()), or
\* one of them has rejected: the rejection is caught and null is returned,
\* and the caller skips the update
FetchReturns(p, c) ==
    /\ c[1].pc = "fetch"
    /\ \/ \E d \in MarketSamples, t \in DateNow :
            /\ Becomes(p, c, [c[1] EXCEPT !.pc = "fetched", !.data = d, !.timestamp = t])
            /\ now' = t
       \/ /\ Becomes(p, c, fetchMarketDataCatch(c))
          /\ UNCHANGED now
    /\ UNCHANGED << trustDB, isMonitoring, updateIntervals, timers, nextTimer,
                    priceHistory, fetches, startPc, startIdx, botVars >>
    /\ UNCHANGED << stopped, activeAlerts, calc >>

(***************************************************************************)
(* updateMarketData, from await to await.                                  *)
(***************************************************************************)
\* the four pushes and the call of calculateIndicators, which reads the history
UpdateBegin(p, c) ==
    /\ c[1].pc = "fetched"
    /\ IF p \notin DOMAIN priceHistory
       THEN /\ Becomes(p, c, Finish(c))
            /\ UNCHANGED priceHistory
       ELSE /\ priceHistory' = [priceHistory EXCEPT ![p] = Pushed(@, c[1].data)]
            /\ Becomes(p, c, [c[1] EXCEPT !.pc = "storeCurrent",
                                          !.seen = calculateIndicators(priceHistory'[p])])
    /\ UNCHANGED << now, trustDB, isMonitoring, updateIntervals, timers, nextTimer,
                    fetches, startPc, startIdx, botVars >>
    /\ UNCHANGED << stopped, activeAlerts, calc >>

\* storeMarketData: trustDB.set(market:{pair}:current); a rejection is caught
\* and skips the history point
StoreCurrent(p, c) ==
    /\ c[1].pc = "storeCurrent"
    /\ \/ /\ trustDB' = DbSet(trustDB, CurrentKey(p), Enriched(c[1]))
          /\ Becomes(p, c, [c[1] EXCEPT !.pc = "storeHistory"])
       \/ /\ Becomes(p, c, [c[1] EXCEPT !.pc = "checkAlerts", !.seen = << >>, !.timestamp = 0])
          /\ UNCHANGED trustDB
    /\ UNCHANGED << now, isMonitoring, updateIntervals, timers, nextTimer, priceHistory,
                    fetches, startPc, startIdx, botVars >>
    /\ UNCHANGED << stopped, activeAlerts, calc >>

\* storeMarketData: trustDB.set(market:{pair}:history:{timestamp}); a rejection
\* is caught
StoreHistory(p, c) ==
    /\ c[1].pc = "storeHistory"
    /\ \/ trustDB' = DbSet(trustDB, HistoryKey(p, c[1].timestamp), Enriched(c[1]))
       \/ UNCHANGED trustDB
    /\ Becomes(p, c, [c[1] EXCEPT !.pc = "checkAlerts", !.seen = << >>, !.timestamp = 0])
    /\ UNCHANGED << now, isMonitoring, updateIntervals, timers, nextTimer, priceHistory,
                    fetches, startPc, startIdx, botVars >>
    /\ UNCHANGED << stopped, activeAlerts, calc >>

\* checkAlertConditions up to its await: the alerts are built, each stamped
\* Date.now(), and so is the key; with no alert the call returns
\* an evaluation that stores its list whether or not it holds an alert
hasAlertsAlways(alerts) == TRUE

\* "if (alerts.length > 0)", the test that guards the write of the alerts
hasAlerts(alerts) == Len(alerts) > 0

CheckAlerts(p, c) ==
    /\ c[1].pc = "checkAlerts"
    /\ \E t \in DateNow :
          /\ IF hasAlerts(checkAlertConditions(c[1].data, t))
             THEN Becomes(p, c, [c[1] EXCEPT !.pc = "storeAlerts", !.alertKey = t])
             ELSE Becomes(p, c, [IdleJob EXCEPT !.pc = "truncate"])
          /\ now' = t
    /\ UNCHANGED << trustDB, isMonitoring, updateIntervals, timers, nextTimer, priceHistory,
                    fetches, startPc, startIdx, botVars >>
    /\ UNCHANGED << stopped, activeAlerts, calc >>

\* a rejection that no caller catches
updateRejectionUncaught(c) == "failed"

\* where a rejection of updateMarketData goes: the interval callback's
\* try/catch logs it; initializePairMonitoring does not catch it, and start
\* logs it and throws it again
updateRejection(c) == IF c[2] THEN "failed" ELSE startPc

\* checkAlertConditions: trustDB.set(alerts:{pair}:{now}) resolves, or rejects:
\* the rejection leaves updateMarketData; the interval callback catches it,
\* initializePairMonitoring and start do not
StoreAlerts(p, c) ==
    /\ c[1].pc = "storeAlerts"
    /\ \/ /\ trustDB' = DbSet(trustDB, AlertsKey(p, c[1].alertKey),
                               checkAlertConditions(c[1].data, c[1].alertKey))
          /\ Becomes(p, c, [IdleJob EXCEPT !.pc = "truncate"])
          /\ UNCHANGED startPc
       \/ /\ Becomes(p, c, IdleJob)
          /\ startPc' = updateRejection(c)
          /\ UNCHANGED trustDB
    /\ UNCHANGED << now, isMonitoring, updateIntervals, timers, nextTimer, priceHistory,
                    fetches, startIdx, botVars >>
    /\ UNCHANGED << stopped, activeAlerts, calc >>

\* "Manage history size", the end of updateMarketData
Truncate(p, c) ==
    /\ c[1].pc = "truncate"
    /\ priceHistory' = [priceHistory EXCEPT ![p] = Truncated(@)]
    /\ Becomes(p, c, Finish(c))
    /\ UNCHANGED << now, trustDB, isMonitoring, updateIntervals, timers, nextTimer,
                    fetches, startPc, startIdx, botVars >>
    /\ UNCHANGED << stopped, activeAlerts, calc >>

(***************************************************************************)
(* MarketMonitor.stop()                                                    *)
(***************************************************************************)
MonitorStop ==
    /\ isMonitoring' = FALSE
    /\ timers' = { t \in timers : updateIntervals[t[1]] # t[2] }
    /\ updateIntervals' = [p \in PairNames |-> 0]
    /\ UNCHANGED << now, trustDB, nextTimer, priceHistory, ticks, initJob, fetches,
                    startPc, startIdx, botVars >>
    /\ stopped' = TRUE
    /\ UNCHANGED << activeAlerts, calc >>

MonitorNext ==
    \/ StartCall
    \/ StartNext
    \/ InitSetInterval
    \/ MonitorStop
    \/ \E p \in PairNames :
          \/ TimerFires(p)
          \/ \E c \in Calls(p) : FetchReturns(p, c)
          \/ \E c \in Calls(p) : UpdateBegin(p, c)
          \/ \E c \in Calls(p) : StoreCurrent(p, c)
          \/ \E c \in Calls(p) : StoreHistory(p, c)
          \/ \E c \in Calls(p) : CheckAlerts(p, c)
          \/ \E c \in Calls(p) : StoreAlerts(p, c)
          \/ \E c \in Calls(p) : Truncate(p, c)

(***************************************************************************)
(* SolanaTradingBot: configuration and the decision engine's functions.    *)
(* Prices, sizes and levels are fixed-point, in units of 1/1000; the       *)
(* percentages of riskConfig are in thousandths.                           *)
(***************************************************************************)
\* the product of two fixed-point numbers
FMul(a, b) == (a * b) \div 1000

\* a number that is not one (0/0 in calculateRSI)
NaN == 0 - 1

\* the comparisons of IEEE numbers: false when an operand is NaN
Lt(a, b) == a # NaN /\ b # NaN /\ a < b

\* SolanaTradingBot.riskConfig: 1 %, 3.3x, 1 %, 0.5 %, 2 %
riskConfig ==
    [ maxPositionPercentage |-> 10, maxLeverage |-> 3300, targetDailyReturn |-> 10,
      stopLossPercentage |-> 5, dailyLossLimit |-> 20 ]

\* config.trading.limits, as loaded
limits == [ minLiquidity |-> 1000, maxVolatility |-> 2 ]

\* calculateConservativePosition: "const availableCapital = 1000" (1000.000)
availableCapital == 1000000

\* The enriched snapshots the monitor may have stored under
\* market:{pair}:current (price fixed-point; liquidity, volatility and RSI on
\* either side of the decision engine's thresholds)
Snapshot(price, liquidity, volatility, rsi) ==
    [ price |-> price, liquidity |-> liquidity, volatility |-> volatility,
      indicators |-> [rsi |-> rsi] ]

BotSnapshots ==
    { Snapshot(100000, 1000, 2, 29), Snapshot(0, 1000, 2, 29),
      Snapshot(100000, 999, 2, 29),  Snapshot(100000, 1000, 3, 29),
      Snapshot(100000, 1000, 2, 30), Snapshot(100000, 1000, 2, 40),
      Snapshot(100000, 1000, 2, NaN), Snapshot(100000, 999, 3, 40) }

NoSnapshot == Snapshot(0, 0, 0, 0)

\* a gate that leaves the volatility bound out
SuitableByLiquidityOnly(marketData) ==
    marketData.liquidity >= limits.minLiquidity

isMarketSuitableForTrading(marketData) ==
    /\ marketData.liquidity >= limits.minLiquidity
    /\ marketData.volatility <= limits.maxVolatility

\* "Placeholder - implement your specific checks"
canTrade == TRUE

\* a signal that trades whenever the direction is buy
analyzeTradingOnBuySignal(marketData) ==
    [ shouldTrade |-> Lt(marketData.indicators.rsi, 40),
      direction   |-> IF Lt(marketData.indicators.rsi, 40) THEN "buy" ELSE "sell",
      confidence  |-> 800 ]

\* an analysis that sells where the source buys, and buys where it sells
analyzeDirectionSwapped(marketData) ==
    LET rsiOverSold  == Lt(marketData.indicators.rsi, 30)
        rsiBuySignal == Lt(marketData.indicators.rsi, 40)
    IN  [ shouldTrade |-> rsiOverSold,
          direction   |-> IF rsiBuySignal THEN "sell" ELSE "buy",
          confidence  |-> 800 ]

analyzeTechnicalIndicators(marketData) ==
    LET rsiOverSold  == Lt(marketData.indicators.rsi, 30)
        rsiBuySignal == Lt(marketData.indicators.rsi, 40)
    IN  [ shouldTrade |-> rsiOverSold,
          direction   |-> IF rsiBuySignal THEN "buy" ELSE "sell",
          confidence  |-> 800 ]

\* a size that is not scaled by the confidence
positionIgnoringConfidence(price, confidence) ==
    FMul(availableCapital, riskConfig.maxPositionPercentage)

calculateConservativePosition(price, confidence) ==
    LET maxPosition == FMul(availableCapital, riskConfig.maxPositionPercentage)
    IN  FMul(maxPosition, confidence)

calculateStopLoss(price, direction) ==
    IF direction = "buy"
    THEN FMul(price, 1000 - riskConfig.stopLossPercentage)
    ELSE FMul(price, 1000 + riskConfig.stopLossPercentage)

calculateTakeProfit(price, direction) ==
    IF direction = "buy"
    THEN FMul(price, 1000 + riskConfig.targetDailyReturn)
    ELSE FMul(price, 1000 - riskConfig.targetDailyReturn)

\* the argument of agentKit.createOrder
OrderParams(p, side, size, price, stopLoss, takeProfit) ==
    [ pair |-> p, side |-> side, size |-> size, type |-> "LIMIT", price |-> price,
      stopLoss |-> stopLoss, takeProfit |-> takeProfit ]

NoOrder == OrderParams("", "", 0, 0, 0, 0)

\* the record executeOrder stores under orders:{id}
OrderRecord(o, t) ==
    [ pair |-> o.pair, side |-> o.side, size |-> o.size, entryPrice |-> o.price,
      stopLoss |-> o.stopLoss, takeProfit |-> o.takeProfit, timestamp |-> t,
      status |-> "open" ]

\* an executeOrder whose catch block swallows the error
executeOrderSwallows == "returned"

\* executeOrder's catch block: the error is logged and thrown again, and
\* evaluateTradeOpportunities, which awaits executeOrder, rejects with it
executeOrderCatch == "threw"

(***************************************************************************)
(* The decision loop                                                       *)
(***************************************************************************)
\* no evaluation has ended yet
NoEval ==
    [ outcome |-> "none", pair |-> "", snapshot |-> NoSnapshot, submitted |-> FALSE,
      createFailed |-> FALSE, orderId |-> 0, wrote |-> {} ]

\* a decision-loop callback at pair idx, awaiting getLatestMarketData
NewCycle(idx) ==
    [ pc |-> "get", idx |-> idx, marketData |-> << >>, order |-> NoOrder,
      orderId |-> 0, timestamp |-> 0 ]

\* closeAllPositions has not been called
NotClosing == [ pc |-> "idle", queue |-> << >>, tracked |-> {}, attempted |-> {} ]

BotInit ==
    /\ isRunning = FALSE
    /\ botPc = "idle"
    /\ decisionTimers = 0
    /\ cycles = EmptyBag
    /\ cyclesBegun = 0
    /\ snapshots = 0
    /\ venueOrders = << >>
    /\ lastEval = NoEval
    /\ closing = NotClosing
    /\ config = [ risk |-> riskConfig ]
    /\ loadedRisk = riskConfig

\* cycle cy goes on as cy2 (pc "done": the callback has returned)
CycleBecomes(cy, cy2) ==
    cycles' = (cycles (-) SetToBag({cy}))
              (+) (IF cy2.pc = "done" THEN EmptyBag ELSE SetToBag({cy2}))

\* the for loop goes to the next pair, or the callback returns
NextPair(cy) ==
    IF cy.idx < Len(pairs)
    THEN NewCycle(cy.idx + 1)
    ELSE [NewCycle(0) EXCEPT !.pc = "done"]

\* a try/catch around the whole loop: an error ends the callback
loopCatchOutsideLoop(cy) == [NewCycle(0) EXCEPT !.pc = "done"]

\* the try/catch inside the for loop: the error of a pair is logged and the
\* loop goes on
loopCatch(cy) == NextPair(cy)

\* SolanaTradingBot.start(): the connection and the monitor are made and
\* marketMonitor.start is awaited.  It resolves, and setupTradingLogic
\* registers the decision loop and isRunning is set; or it rejects, and start
\* rejects
BotStart ==
    /\ botPc = "idle"
    /\ \/ /\ decisionTimers' = decisionTimers + 1
          /\ isRunning' = TRUE
          /\ botPc' = "running"
       \/ /\ botPc' = "failed"
          /\ UNCHANGED << decisionTimers, isRunning >>
    /\ UNCHANGED << now, trustDB, monitorVars, cycles, cyclesBegun, snapshots,
                    venueOrders, lastEval >>
    /\ UNCHANGED pairs
    /\ UNCHANGED << closing, config, loadedRisk >>

\* SolanaTradingBot.stop() up to its first await: the flag is cleared and
\* marketMonitor.stop() runs; closeAllPositions is called next
BotStop ==
    /\ botPc = "running"
    /\ isRunning' = FALSE
    /\ botPc' = "stopped"
    /\ isMonitoring' = FALSE
    /\ timers' = { t \in timers : updateIntervals[t[1]] # t[2] }
    /\ updateIntervals' = [p \in PairNames |-> 0]
    /\ UNCHANGED << now, trustDB, nextTimer, priceHistory, ticks, initJob, fetches,
                    startPc, startIdx, decisionTimers, cycles, cyclesBegun, snapshots,
                    venueOrders, lastEval >>
    /\ UNCHANGED pairs
    /\ stopped' = TRUE
    /\ UNCHANGED << activeAlerts, calc >>
    /\ closing' = [NotClosing EXCEPT !.pc = "list"]
    /\ UNCHANGED << config, loadedRisk >>

\* the ids of the order records of the store whose status is open
OpenOrderIds ==
    { k[2] : k \in { x \in DOMAIN trustDB : x[1] = "orders" /\ trustDB[x].status = "open" } }

\* the elements of a set of numbers in ascending order
RECURSIVE Ascending(_)
Ascending(S) ==
    IF S = {} THEN << >>
    ELSE LET m == CHOOSE x \in S : \A y \in S : x <= y
         IN  << m >> \o Ascending(S \ {m})

\* getAllOpenPositions: the tracked open positions (the class does not define
\* the method; the Position/Order records of the store with status open)
getAllOpenPositions == Ascending(OpenOrderIds)

\* closePosition(pair, position, reason): the class does not define the method;
\* the position's record gets status closed
closePosition(db, id) == [db EXCEPT ![OrderKey(id)].status = "closed"]

\* closeAllPositions after "await this.getAllOpenPositions()".  The call throws
\* (as the source stands the method is undefined) or rejects: the catch block
\* logs and closeAllPositions returns.  Or it resolves with the positions: the
\* for loop calls closePosition for the first one
GetAllOpenPositionsReturns ==
    /\ closing.pc = "list"
    /\ \/ closing' = [closing EXCEPT !.pc = "done", !.tracked = OpenOrderIds]
       \/ LET positions == getAllOpenPositions IN
          closing' = IF positions = << >>
                     THEN [closing EXCEPT !.pc = "done"]
                     ELSE [ pc |-> "close", queue |-> positions, tracked |-> OpenOrderIds,
                            attempted |-> {positions[1]} ]
    /\ UNCHANGED << now, trustDB, monitorVars, pairs, isRunning, botPc, decisionTimers,
                    cycles, cyclesBegun, snapshots, venueOrders, lastEval, config,
                    loadedRisk >>

\* the try/catch of closeAllPositions encloses the for loop: a rejected
\* closePosition is logged and ends the loop
closeAllPositionsCatch(c) == [c EXCEPT !.pc = "done", !.queue = << >>]

\* closePosition returns: it resolves and the loop goes to the next position
\* or ends; or it rejects
ClosePositionReturns ==
    /\ closing.pc = "close"
    /\ \/ /\ trustDB' = closePosition(trustDB, closing.queue[1])
          /\ closing' = IF Len(closing.queue) > 1
                        THEN [closing EXCEPT !.queue = Tail(@),
                                             !.attempted = @ \cup {closing.queue[2]}]
                        ELSE [closing EXCEPT !.pc = "done", !.queue = << >>]
       \/ /\ closing' = closeAllPositionsCatch(closing)
          /\ UNCHANGED trustDB
    /\ UNCHANGED << now, monitorVars, pairs, isRunning, botPc, decisionTimers,
                    cycles, cyclesBegun, snapshots, venueOrders, lastEval, config,
                    loadedRisk >>

\* storeMarketData of the running monitor: a tick of an enabled pair stores
\* its enriched snapshot under market:{pair}:current
MonitorStores(p) ==
    /\ botPc = "running"
    /\ \E i \in 1..Len(pairs) : pairs[i].name = p /\ pairs[i].enabled
    /\ snapshots < MaxSnapshots
    /\ snapshots' = snapshots + 1
    /\ \E snap \in BotSnapshots : trustDB' = DbSet(trustDB, CurrentKey(p), snap)
    /\ UNCHANGED << now, monitorVars, isRunning, botPc, decisionTimers, cycles,
                    cyclesBegun, venueOrders, lastEval >>
    /\ UNCHANGED pairs
    /\ UNCHANGED << closing, config, loadedRisk >>

\* the runtime calls the decision-loop callback: it returns at once when
\* isRunning is false, else the loop begins with the first pair
DecisionTimerFires ==
    /\ decisionTimers > 0
    /\ \/ /\ ~isRunning
          /\ UNCHANGED vars
       \/ /\ isRunning
          /\ cyclesBegun < MaxCycles
          /\ cyclesBegun' = cyclesBegun + 1
          /\ cycles' = cycles (+) SetToBag({NewCycle(1)})
          /\ UNCHANGED << now, trustDB, monitorVars, isRunning, botPc, decisionTimers,
                          snapshots, venueOrders, lastEval >>
    /\ UNCHANGED pairs
    /\ UNCHANGED << closing, config, loadedRisk >>

\* getLatestMarketData returns: trustDB.get has resolved with the stored
\* snapshot (or nothing), or it has rejected and null is returned
GetLatestReturns(cy) ==
    /\ cy.pc = "get"
    /\ LET key == CurrentKey(pairs[cy.idx].name) IN
       \/ CycleBecomes(cy, [cy EXCEPT !.pc = "alerts",
                                      !.marketData = IF key \in DOMAIN trustDB
                                                     THEN << trustDB[key] >> ELSE << >>])
       \/ CycleBecomes(cy, [cy EXCEPT !.pc = "alerts"])
    /\ UNCHANGED << now, trustDB, monitorVars, isRunning, botPc, decisionTimers,
                    cyclesBegun, snapshots, venueOrders, lastEval >>
    /\ UNCHANGED pairs
    /\ UNCHANGED << closing, config, loadedRisk >>

\* what evaluateTradeOpportunities does with a snapshot up to createOrder:
\* the evaluation that ends here, or the order it submits
Evaluated(p, marketData) ==
    LET analysis == analyzeTechnicalIndicators(marketData)
        positionSize == calculateConservativePosition(marketData.price, analysis.confidence)
        ended == [NoEval EXCEPT !.pair = p, !.snapshot = marketData]
    IN  IF ~isMarketSuitableForTrading(marketData)
        THEN [ submit |-> FALSE, eval |-> [ended EXCEPT !.outcome = "skipped"], order |-> NoOrder ]
        ELSE IF ~canTrade
        THEN [ submit |-> FALSE, eval |-> [ended EXCEPT !.outcome = "limits"], order |-> NoOrder ]
        ELSE IF analysis.shouldTrade /\ positionSize > 0
        THEN [ submit |-> TRUE, eval |-> ended,
               order |-> OrderParams(p, analysis.direction, positionSize, marketData.price,
                                     calculateStopLoss(marketData.price, analysis.direction),
                                     calculateTakeProfit(marketData.price, analysis.direction)) ]
        ELSE [ submit |-> FALSE, eval |-> [ended EXCEPT !.outcome = "noTrade"], order |-> NoOrder ]

\* getActiveAlerts returns (evaluateTradeOpportunities never reads the alerts).
\* Without a snapshot the pair is passed over; else evaluateTradeOpportunities
\* runs: the gates, the analysis and the sizing read only the snapshot, and the
\* evaluation ends or agentKit.createOrder is called
GetAlertsReturns(cy) ==
    /\ cy.pc = "alerts"
    /\ IF cy.marketData = << >>
       THEN /\ CycleBecomes(cy, NextPair(cy))
            /\ UNCHANGED lastEval
       ELSE LET e == Evaluated(pairs[cy.idx].name, cy.marketData[1]) IN
            IF e.submit
            THEN /\ CycleBecomes(cy, [cy EXCEPT !.pc = "createOrder", !.order = e.order])
                 /\ UNCHANGED lastEval
            ELSE /\ CycleBecomes(cy, NextPair(cy))
                 /\ lastEval' = e.eval
    /\ UNCHANGED << now, trustDB, monitorVars, isRunning, botPc, decisionTimers,
                    cyclesBegun, snapshots, venueOrders >>
    /\ UNCHANGED pairs
    /\ UNCHANGED << closing, config, loadedRisk >>

\* agentKit.createOrder resolves: the venue has accepted the order, and
\* trustDB.set(orders:{id}) is called (timestamp: Date.now()); or it rejects:
\* executeOrder's catch block runs and the loop's try/catch ends the pair
CreateOrderReturns(cy) ==
    /\ cy.pc = "createOrder"
    /\ \/ LET id == Cardinality(DOMAIN venueOrders) + 1 IN
          \E t \in DateNow :
            /\ venueOrders' = DbSet(venueOrders, id, cy.order)
            /\ CycleBecomes(cy, [cy EXCEPT !.pc = "storeOrder", !.orderId = id,
                                           !.timestamp = t])
            /\ now' = t
            /\ UNCHANGED << trustDB, lastEval >>
       \/ /\ CycleBecomes(cy, loopCatch(cy))
          /\ UNCHANGED trustDB
          /\ lastEval' = [NoEval EXCEPT !.outcome = executeOrderCatch,
                                        !.pair = cy.order.pair,
                                        !.snapshot = cy.marketData[1],
                                        !.submitted = TRUE,
                                        !.createFailed = TRUE,
                                        !.wrote = (DOMAIN trustDB') \ (DOMAIN trustDB)]
          /\ UNCHANGED << now, venueOrders >>
    /\ UNCHANGED << monitorVars, isRunning, botPc, decisionTimers, cyclesBegun, snapshots >>
    /\ UNCHANGED pairs
    /\ UNCHANGED << closing, config, loadedRisk >>

\* trustDB.set(orders:{id}) resolves: the record is stored and executeOrder
\* returns; or it rejects: executeOrder's catch block runs
StoreOrderReturns(cy) ==
    /\ cy.pc = "storeOrder"
    /\ \/ /\ trustDB' = DbSet(trustDB, OrderKey(cy.orderId), OrderRecord(cy.order, cy.timestamp))
          /\ CycleBecomes(cy, NextPair(cy))
          /\ lastEval' = [NoEval EXCEPT !.outcome = "ordered",
                                        !.pair = cy.order.pair,
                                        !.snapshot = cy.marketData[1],
                                        !.submitted = TRUE,
                                        !.orderId = cy.orderId,
                                        !.wrote = (DOMAIN trustDB') \ (DOMAIN trustDB)]
       \/ /\ UNCHANGED trustDB
          /\ CycleBecomes(cy, loopCatch(cy))
          /\ lastEval' = [NoEval EXCEPT !.outcome = executeOrderCatch,
                                        !.pair = cy.order.pair,
                                        !.snapshot = cy.marketData[1],
                                        !.submitted = TRUE,
                                        !.orderId = cy.orderId]
    /\ UNCHANGED << now, monitorVars, isRunning, botPc, decisionTimers, cyclesBegun,
                    snapshots, venueOrders >>
    /\ UNCHANGED pairs
    /\ UNCHANGED << closing, config, loadedRisk >>

BotNext ==
    \/ BotStart
    \/ BotStop
    \/ DecisionTimerFires
    \/ \E p \in PairNames : MonitorStores(p)
    \/ \E cy \in BagToSet(cycles) : GetLatestReturns(cy)
    \/ \E cy \in BagToSet(cycles) : GetAlertsReturns(cy)
    \/ \E cy \in BagToSet(cycles) : CreateOrderReturns(cy)
    \/ \E cy \in BagToSet(cycles) : StoreOrderReturns(cy)
    \/ GetAllOpenPositionsReturns
    \/ ClosePositionReturns

\* The state after construction.  The clock is at the last instant the model
\* tells apart, so every Date.now() of the run reads the same millisecond: the
\* timestamps are data that the history update and the decision engine never
\* compare.
Init ==
    /\ now = MaxTime
    /\ pairs = TradingPairs
    /\ trustDB = << >>
    /\ MonitorInit
    /\ BotInit

\* The state after construction, with the whole range of the clock ahead.
InitClock ==
    /\ now = 0
    /\ pairs = TradingPairs
    /\ trustDB = << >>
    /\ MonitorInit
    /\ BotInit

\* the configured pairs, every one enabled
AllEnabled == [ i \in 1..Len(TradingPairs) |-> [TradingPairs[i] EXCEPT !.enabled = TRUE] ]

\* The state after construction when start is given two enabled pairs.
InitPairs ==
    /\ now = MaxTime
    /\ pairs = AllEnabled
    /\ trustDB = << >>
    /\ MonitorInit
    /\ BotInit

\* an interval callback that has pushed sample d and stored it, and is about
\* to call checkAlertConditions
AtCheckAlerts(d) == [IdleJob EXCEPT !.pc = "checkAlerts", !.data = d]

\* A state in the middle of a run, in a market at the edges of the alert
\* thresholds: start has completed for the one enabled pair (its initial fetch
\* failed), and one or two interval callbacks of the pair have fetched a sample,
\* pushed it and stored the first snapshot, and are about to evaluate the alerts.
InitAlertEval ==
    /\ now = MaxTime
    /\ pairs = TradingPairs
    /\ BotInit
    /\ isMonitoring = TRUE
    /\ startPc = "done"
    /\ startIdx = NextEnabled(1)
    /\ stopped = FALSE
    /\ activeAlerts = NoAnswer
    /\ calc = NoCalc
    /\ initJob = IdleJob
    /\ nextTimer = 2
    /\ \E d1 \in AlertSamples : \E more \in SUBSET AlertSamples :
          LET p  == pairs[NextEnabled(1)].name
              h1 == Pushed(EmptyHistory, d1)
              first == [AtCheckAlerts(d1) EXCEPT !.timestamp = now,
                                                 !.seen = calculateIndicators(h1)]
          IN  /\ Cardinality(more) <= 1
              /\ timers = {<< p, 1 >>}
              /\ updateIntervals = [q \in PairNames |-> IF q = p THEN 1 ELSE 0]
              /\ trustDB = DbSet(<< >>, CurrentKey(p), Enriched(first))
              /\ fetches = 2 + Cardinality(more)
              /\ \/ /\ more = {}
                    /\ priceHistory = DbSet(<< >>, p, h1)
                    /\ ticks = [q \in PairNames |->
                                  IF q = p THEN SetToBag({AtCheckAlerts(d1)}) ELSE EmptyBag]
                 \/ \E d2 \in more :
                    /\ priceHistory = DbSet(<< >>, p, Pushed(h1, d2))
                    /\ ticks = [q \in PairNames |->
                                  IF q = p
                                  THEN SetToBag({AtCheckAlerts(d1)}) (+) SetToBag({AtCheckAlerts(d2)})
                                  ELSE EmptyBag]

(***************************************************************************)
(* MarketMonitor.getActiveAlerts                                           *)
(***************************************************************************)
\* 24 * 60 * 60 * 1000, the trailing window in milliseconds
Day == 86400000

\* a property the value does not have
Undefined == 0 - 1

\* value.timestamp as the filter reads it.  The values under alerts:{pair}:{t}
\* are the arrays checkAlertConditions stores, and an array has no property
\* "timestamp"; the other values of the store are records that have one.
valueTimestamp(key, value) == IF key[1] = "alerts" THEN Undefined ELSE value.timestamp

\* a >= b where a may be undefined: the comparison is then false
GreaterEq(a, b) == a # Undefined /\ a >= b

\* "(key, value) => value.timestamp >= since"
alertFilter(key, value, since) == GreaterEq(valueTimestamp(key, value), since)

\* trustDB.query("alerts:{pair}:*", filter): the entries of the store under the
\* prefix that pass the filter
query(db, p, since) ==
    LET keys == { k \in DOMAIN db :
                     k[1] = "alerts" /\ k[2] = p /\ alertFilter(k, db[k], since) }
    IN  [ k \in keys |-> db[k] ]

\* Object.values(alerts).flat(): the lists of the entries, one after another
RECURSIVE Flat(_, _, _)
Flat(entries, p, stamps) ==
    IF stamps = << >> THEN << >>
    ELSE entries[AlertsKey(p, Head(stamps))] \o Flat(entries, p, Tail(stamps))

getActiveAlerts(db, p, t) ==
    LET entries == query(db, p, t - Day)
    IN  Flat(entries, p, Ascending({ k[3] : k \in DOMAIN entries }))

\* getActiveAlerts(p): the query resolves and its entries are returned, or it
\* rejects and the catch returns the empty list
GetActiveAlerts(p) ==
    /\ \E t \in DateNow :
          /\ now' = t
          /\ \/ activeAlerts' = [ called |-> TRUE, pair |-> p, since |-> t - Day,
                                   resolved |-> TRUE,
                                   alerts |-> getActiveAlerts(trustDB, p, t) ]
             \/ activeAlerts' = [ called |-> TRUE, pair |-> p, since |-> t - Day,
                                   resolved |-> FALSE, alerts |-> << >> ]
    /\ UNCHANGED << trustDB, isMonitoring, updateIntervals, timers, nextTimer, priceHistory,
                    ticks, initJob, fetches, startPc, startIdx, stopped, calc, botVars >>

\* the alert evaluations of the interval callbacks under way, and the reads
\* of the alerts
AlertEvalNext ==
    \E p \in PairNames :
        \/ \E c \in Calls(p) : CheckAlerts(p, c)
        \/ \E c \in Calls(p) : StoreAlerts(p, c)
        \/ \E c \in Calls(p) : Truncate(p, c)
        \/ GetActiveAlerts(p)

\* the market monitor
Spec == Init /\ [][MonitorNext]_vars

\* the market monitor with a running clock
SpecClock == InitClock /\ [][MonitorNext]_vars

\* the market monitor over two enabled pairs
SpecPairs == InitPairs /\ [][MonitorNext]_vars

\* start(pairs) is called again after an earlier call of start has returned or
\* thrown: the loop over the pairs begins anew
StartAgain ==
    /\ startPc \in {"done", "failed"}
    /\ fetches < MaxFetches
    /\ StartLoop(1)
    /\ UNCHANGED << now, trustDB, updateIntervals, timers, nextTimer, ticks, botVars >>
    /\ stopped' = FALSE
    /\ UNCHANGED << activeAlerts, calc >>

RestartNext ==
    \/ MonitorNext
    \/ StartAgain

\* the market monitor, started and stopped any number of times
SpecRestart == Init /\ [][RestartNext]_vars

\* the alert evaluations of a pair in a market at the edges of the thresholds
SpecAlerts == InitAlertEval /\ [][AlertEvalNext]_vars

\* the trading bot's decision loop over the snapshots a running monitor stores
SpecBot == Init /\ [][BotNext]_vars

(***************************************************************************)
(* TechnicalAnalysis: calculateEMA, calculateRSI, findSupportResistance.   *)
(* A number is a fraction num/den with den > 0, or NaN.                    *)
(***************************************************************************)
Number(n, d) == [ nan |-> FALSE, num |-> n, den |-> d ]
NotANumber == [ nan |-> TRUE, num |-> 0, den |-> 1 ]

RECURSIVE Pow(_, _)
Pow(b, e) == IF e = 0 THEN 1 ELSE b * Pow(b, e - 1)

RECURSIVE Gcd(_, _)
Gcd(a, b) == IF b = 0 THEN a ELSE Gcd(b, a % b)

\* "2 / (period + 1)" in lowest terms, <<numerator, denominator>>
multiplier(period) ==
    << 2 \div Gcd(2, period + 1), (period + 1) \div Gcd(2, period + 1) >>

\* the loop of calculateEMA from index i (of 1..Len) on; ema is n / b^(i-2)
RECURSIVE emaLoop(_, _, _, _)
emaLoop(prices, period, i, n) ==
    IF i > Len(prices) THEN n
    ELSE LET a == multiplier(period)[1]
             b == multiplier(period)[2]
         IN  emaLoop(prices, period, i + 1, prices[i] * a * Pow(b, i - 2) + n * (b - a))

\* an average over the last period prices only, seeded with the first of them
calculateEMAWindowed(prices, period) ==
    IF Len(prices) < period
    THEN Number(prices[Len(prices)], 1)
    ELSE LET w == SubSeq(prices, Len(prices) - period + 1, Len(prices))
         IN  Number(emaLoop(w, period, 2, w[1]) * Pow(multiplier(period)[2], Len(prices) - Len(w)),
                    Pow(multiplier(period)[2], Len(prices) - 1))

calculateEMA(prices, period) ==
    IF Len(prices) < period
    THEN Number(prices[Len(prices)], 1)
    ELSE Number(emaLoop(prices, period, 2, prices[1]),
                Pow(multiplier(period)[2], Len(prices) - 1))

\* the sum of the gains (up) or of the losses of the steps from..to, step i
\* being prices[i+1] - prices[i]
RECURSIVE sumSteps(_, _, _, _)
sumSteps(prices, from, to, up) ==
    IF from > to THEN 0
    ELSE LET difference == prices[from + 1] - prices[from]
         IN  (IF up THEN (IF difference >= 0 THEN difference ELSE 0)
                    ELSE (IF difference >= 0 THEN 0 ELSE 0 - difference))
             + sumSteps(prices, from + 1, to, up)

\* Wilder's smoothing from step i on; avgGain is g / d and avgLoss is l / d
RECURSIVE rsiSmooth(_, _, _, _, _, _)
rsiSmooth(prices, period, i, g, l, d) ==
    IF i > Len(prices) - 1 THEN << g, l >>
    ELSE LET difference == prices[i + 1] - prices[i]
         IN  IF difference >= 0
             THEN rsiSmooth(prices, period, i + 1,
                            g * (period - 1) + difference * d, l * (period - 1), d * period)
             ELSE rsiSmooth(prices, period, i + 1,
                            g * (period - 1), l * (period - 1) - difference * d, d * period)

\* "100 - (100 / (1 + rs))" with rs = avgGain / avgLoss
rsiOf(g, l) ==
    IF l = 0
    THEN IF g = 0 THEN NotANumber      \* 0 / 0
         ELSE Number(100, 1)           \* rs is Infinity, 100 / Infinity is 0
    ELSE Number(100 * (g + l) - 100 * l, g + l)

calculateRSI(prices, period) ==
    IF Len(prices) < period + 1 THEN Number(50, 1)
    ELSE LET gl == rsiSmooth(prices, period, period + 1,
                             sumSteps(prices, 1, period, TRUE),
                             sumSteps(prices, 1, period, FALSE), period)
         IN  rsiOf(gl[1], gl[2])

\* Math.min(...) and Math.max(...) of the prices at the indices of S
MinAt(prices, S) == CHOOSE x \in { prices[j] : j \in S } : \A j \in S : x <= prices[j]
MaxAt(prices, S) == CHOOSE x \in { prices[j] : j \in S } : \A j \in S : x >= prices[j]

\* the indices (of 1..Len) the loop of findSupportResistance visits, and the
\* windows to the left and to the right of index i
srIndices(prices, period) == (period + 1)..(Len(prices) - period)
leftPrices(i, period) == (i - period)..(i - 1)
rightPrices(i, period) == (i + 1)..(i + period)

isSupport(prices, period, i) ==
    /\ prices[i] < MinAt(prices, leftPrices(i, period))
    /\ prices[i] < MinAt(prices, rightPrices(i, period))

isResistance(prices, period, i) ==
    /\ prices[i] > MaxAt(prices, leftPrices(i, period))
    /\ prices[i] > MaxAt(prices, rightPrices(i, period))

\* the prices at the indices from i on that pass the test, in order
RECURSIVE levelsFrom(_, _, _, _)
levelsFrom(prices, period, i, support) ==
    IF i > Len(prices) - period THEN << >>
    ELSE (IF (IF support THEN isSupport(prices, period, i)
                         ELSE isResistance(prices, period, i))
          THEN << prices[i] >> ELSE << >>)
         \o levelsFrom(prices, period, i + 1, support)

findSupportResistance(prices, period) ==
    [ supports    |-> levelsFrom(prices, period, period + 1, TRUE),
      resistances |-> levelsFrom(prices, period, period + 1, FALSE) ]

\* "period: number = 20", the default window of findSupportResistance
DefaultWindow == 20

\* the sequences of the tests: 1..10, and the zigzag of 20 samples
OneToTen == << 1, 2, 3, 4, 5, 6, 7, 8, 9, 10 >>
Zigzag == << 10, 11, 12, 11, 10, 9, 8, 9, 10, 11, 12, 13, 12, 11, 10, 9, 8, 7, 8, 9 >>

\* the price sequences and the periods the functions are called with
PriceSeqs == UNION { [1..n -> 1..MaxPrice] : n \in 1..MaxLen }
Periods == 1..MaxPeriod

\* a function is called with the inputs and returns the result (the functions
\* are static and keep no state: one call shows what any call does)
CallTo(fn, prices, period, result) ==
    /\ calc.fn = "none"
    /\ calc' = [ fn |-> fn, prices |-> prices, period |-> period, result |-> result ]
    /\ UNCHANGED << now, trustDB, isMonitoring, updateIntervals, timers, nextTimer,
                    priceHistory, ticks, initJob, fetches, startPc, startIdx, stopped,
                    activeAlerts, botVars >>

CallEMA ==
    \E prices \in PriceSeqs \cup {OneToTen} : \E period \in Periods \cup {5} :
        CallTo("calculateEMA", prices, period, calculateEMA(prices, period))

CallRSI ==
    \E prices \in PriceSeqs : \E period \in Periods :
        CallTo("calculateRSI", prices, period, calculateRSI(prices, period))

CallSupportResistance ==
    \E in \in (PriceSeqs \X Periods) \cup {<< Zigzag, DefaultWindow >>} :
        CallTo("findSupportResistance", in[1], in[2], findSupportResistance(in[1], in[2]))

IndicatorsNext ==
    \/ CallEMA
    \/ CallRSI
    \/ CallSupportResistance

\* a call of a function of TechnicalAnalysis
SpecIndicators == Init /\ [][IndicatorsNext]_vars

(***************************************************************************)
(* The constructor of SolanaTradingBot                                     *)
(***************************************************************************)
\* risk settings the configuration may hold when it is loaded: the values of
\* riskConfig themselves, and a more aggressive set (5 %, 10x, 5 %, 2 %, 10 %)
LoadedRisks ==
    { riskConfig,
      [ maxPositionPercentage |-> 50, maxLeverage |-> 10000, targetDailyReturn |-> 50,
        stopLossPercentage |-> 20, dailyLossLimit |-> 100 ] }

\* The state in which the constructor is called: context.config holds the
\* settings with their risk part as loaded, and nothing runs.
InitLoaded ==
    /\ now = MaxTime
    /\ pairs = TradingPairs
    /\ trustDB = << >>
    /\ MonitorInit
    /\ isRunning = FALSE
    /\ botPc = "new"
    /\ decisionTimers = 0
    /\ cycles = EmptyBag
    /\ cyclesBegun = 0
    /\ snapshots = 0
    /\ venueOrders = << >>
    /\ lastEval = NoEval
    /\ closing = NotClosing
    /\ loadedRisk \in LoadedRisks
    /\ config = [ risk |-> loadedRisk ]

\* the constructor: "this.config = this.context.config.get('settings')" and
\* "this.config.risk = this.riskConfig"
Construct ==
    /\ botPc = "new"
    /\ botPc' = "idle"
    /\ config' = [config EXCEPT !.risk = riskConfig]
    /\ UNCHANGED << now, trustDB, monitorVars, pairs, isRunning, decisionTimers, cycles,
                    cyclesBegun, snapshots, venueOrders, lastEval, closing, loadedRisk >>

ConfigNext ==
    \/ Construct
    \/ BotNext

\* the trading bot from its construction on
SpecConfig == InitLoaded /\ [][ConfigNext]_vars

(***************************************************************************)
(* The rolling history and the ticks of a pair                             *)
(***************************************************************************)
\* no call of updateMarketData for pair p is under way
NoUpdateInFlight(p) == \A c \in Calls(p) : ~InUpdate(c[1])

HistoryLengths(h) == { Len(h.prices), Len(h.highs), Len(h.lows), Len(h.volumes) }

\* C1: once every updateMarketData call of a pair has ended, however it ended
\* and however the calls interleaved, none of prices, highs, lows, volumes is
\* longer than maxPeriod.
C1_HistoryWithinMaxPeriod ==
    \A p \in DOMAIN priceHistory :
        NoUpdateInFlight(p) => \A n \in HistoryLengths(priceHistory[p]) : n <= maxPeriod

\* C2: at most one tick of a pair is in flight at any time.
C2_OneTickInFlight ==
    \A p \in PairNames : BagCardinality(ticks[p]) <= 1

\* C5: the history calculateIndicators reads is never one between the append
\* and the truncation: none of the sequences it reads is longer than maxPeriod.
C5_IndicatorsReadTruncatedHistory ==
    \A p \in PairNames :
        \A c \in Calls(p) :
            c[1].pc = "storeCurrent" =>
                /\ Len(c[1].seen.prices) <= maxPeriod
                /\ Len(c[1].seen.highs) <= maxPeriod
                /\ Len(c[1].seen.lows) <= maxPeriod

\* the (price, volume) of the samples the collaborators can answer
SamplePoints == { <<d.price, d.volume24h>> : d \in MarketSamples }

\* C6: in every state between two steps the four sequences of a pair have the
\* same length, and index i of each holds the same sample: high and low are the
\* sample's price and the volume is the volume fetched with that price.
C6_SequencesParallel ==
    \A p \in DOMAIN priceHistory :
        LET h == priceHistory[p] IN
        /\ Cardinality(HistoryLengths(h)) = 1
        /\ \A i \in 1..Len(h.prices) :
              /\ h.highs[i] = h.prices[i]
              /\ h.lows[i] = h.prices[i]
              /\ <<h.prices[i], h.volumes[i]>> \in SamplePoints

\* two ticks of a pair are inside updateMarketData together, one of them about
\* to truncate, with unlike samples in a history longer than maxPeriod
C6_Witness ==
    \E p \in DOMAIN priceHistory :
        /\ BagCardinality(ticks[p]) = 2
        /\ \A j \in BagToSet(ticks[p]) : InUpdate(j)
        /\ \E j \in BagToSet(ticks[p]) : j.pc = "truncate"
        /\ Len(priceHistory[p].prices) > maxPeriod
        /\ priceHistory[p].prices[1] # priceHistory[p].prices[2]

(***************************************************************************)
(* The decision engine and the orders                                      *)
(***************************************************************************)
\* the decision-loop callbacks that have submitted an order and await the
\* venue or the store
Submitting == { cy \in BagToSet(cycles) : cy.pc \in {"createOrder", "storeOrder"} }

\* the two market gates, as the specification words them
GatesPass(s) == s.liquidity >= limits.minLiquidity /\ s.volatility <= limits.maxVolatility

\* the RSI of a snapshot is a number below the bound
RsiBelow(s, bound) == s.indicators.rsi # NaN /\ s.indicators.rsi < bound

\* C3: once the evaluation that submitted it has ended, every order the venue
\* accepted has its record under orders:{id}, with status open and the pair,
\* side, size, entry price, stop-loss and take-profit that were submitted.
C3_AcceptedOrdersPersisted ==
    \A id \in DOMAIN venueOrders :
        (\A cy \in Submitting : cy.orderId # id) =>
            /\ OrderKey(id) \in DOMAIN trustDB
            /\ LET r == trustDB[OrderKey(id)]
                   o == venueOrders[id]
               IN  /\ r.status = "open"
                   /\ r.pair = o.pair /\ r.side = o.side /\ r.size = o.size
                   /\ r.entryPrice = o.price
                   /\ r.stopLoss = o.stopLoss /\ r.takeProfit = o.takeProfit

\* C4: an evaluation in which agentKit.createOrder failed has ended by
\* throwing and has written nothing to the store, and the store holds no
\* orders:{id} record but those of orders the venue accepted.
C4_CreateOrderFailurePropagates ==
    /\ lastEval.createFailed =>
          /\ lastEval.outcome = "threw"
          /\ lastEval.wrote = {}
          /\ lastEval.orderId = 0
    /\ \A k \in DOMAIN trustDB : k[1] = "orders" => k[2] \in DOMAIN venueOrders

\* an evaluation has ended in which createOrder was called and rejected
C4_Witness ==
    /\ lastEval.createFailed
    /\ lastEval.submitted
    /\ GatesPass(lastEval.snapshot)

\* C7: a callback that has submitted an order evaluated a snapshot inside both
\* bounds, and an evaluation of a snapshot outside a bound has ended as a skip:
\* nothing submitted, nothing written, nothing thrown.
C7_GatesGuardOrders ==
    /\ \A cy \in Submitting : GatesPass(cy.marketData[1])
    /\ (lastEval.outcome # "none" /\ ~GatesPass(lastEval.snapshot)) =>
          /\ lastEval.outcome = "skipped"
          /\ ~lastEval.submitted
          /\ lastEval.wrote = {}
    /\ lastEval.submitted => GatesPass(lastEval.snapshot)

\* a snapshot that would have traded has been skipped for its volatility alone
C7_Witness ==
    /\ lastEval.outcome = "skipped"
    /\ lastEval.snapshot.liquidity >= limits.minLiquidity
    /\ lastEval.snapshot.volatility > limits.maxVolatility
    /\ RsiBelow(lastEval.snapshot, 30)

\* the position size of an evaluation (the confidence is the analysis's)
SizeOf(s) == calculateConservativePosition(s.price, 800)

\* C8: the analysis of every snapshot is shouldTrade = (RSI < 30), direction
\* buy when RSI < 40 and sell otherwise, confidence 0.8; and an evaluation
\* submits an order exactly when the gates passed, shouldTrade holds and the
\* size is positive.
C8_AnalysisDecidesSubmission ==
    /\ \A s \in BotSnapshots :
          analyzeTechnicalIndicators(s) =
              [ shouldTrade |-> RsiBelow(s, 30),
                direction   |-> IF RsiBelow(s, 40) THEN "buy" ELSE "sell",
                confidence  |-> 800 ]
    /\ \A cy \in Submitting :
          LET s == cy.marketData[1] IN GatesPass(s) /\ RsiBelow(s, 30) /\ SizeOf(s) > 0
    /\ lastEval.outcome # "none" =>
          (lastEval.submitted <=>
              (GatesPass(lastEval.snapshot) /\ RsiBelow(lastEval.snapshot, 30)
                 /\ SizeOf(lastEval.snapshot) > 0))

\* evaluations at the edges of the trigger: RSI exactly 30 passed the gates and
\* ended without an order, while an order of RSI 29 is with the venue
C8_Witness ==
    /\ lastEval.outcome = "noTrade"
    /\ lastEval.snapshot.indicators.rsi = 30
    /\ GatesPass(lastEval.snapshot)
    /\ \E cy \in Submitting : cy.marketData[1].indicators.rsi = 29

\* confidences in [0, 1], fixed-point
Confidences == {0, 200, 400, 800, 1000}

\* C9: every submitted order has size availableCapital * maxPositionPercentage
\* * confidence; the size is linear in the confidence, and for a confidence in
\* [0, 1] it does not exceed availableCapital * maxPositionPercentage.
C9_PositionSize ==
    /\ \A id \in DOMAIN venueOrders :
          venueOrders[id].size * 1000 =
              (availableCapital \div 1000) * riskConfig.maxPositionPercentage * 800
    /\ \A cy \in Submitting :
          cy.order.size * 1000 =
              (availableCapital \div 1000) * riskConfig.maxPositionPercentage * 800
    /\ \A c1 \in Confidences : \A c2 \in Confidences :
          c1 + c2 \in Confidences =>
              calculateConservativePosition(100000, c1 + c2) =
                  calculateConservativePosition(100000, c1)
                    + calculateConservativePosition(100000, c2)
    /\ \A c \in Confidences :
          calculateConservativePosition(100000, c) * 1000
              <= availableCapital * riskConfig.maxPositionPercentage

\* the venue has accepted an order
C9_Witness ==
    \E id \in DOMAIN venueOrders :
        venueOrders[id].size > 0 /\ venueOrders[id].side = "buy"

\* C10: in every order the venue accepted, a buy has stop-loss < entry price <
\* take-profit and a sell has take-profit < entry price < stop-loss.
C10_LevelsBracketEntry ==
    \A id \in DOMAIN venueOrders :
        LET o == venueOrders[id] IN
        IF o.side = "buy"
        THEN o.stopLoss < o.price /\ o.price < o.takeProfit
        ELSE o.takeProfit < o.price /\ o.price < o.stopLoss

(***************************************************************************)
(* Failures of the collaborators in the monitor                            *)
(***************************************************************************)
\* an interval callback of pair p that awaits fetchMarketData ends in this step
TickFetchEnds(p) ==
    \E j \in BagToSet(ticks[p]) :
        j.pc = "fetch" /\ ticks'[p] = ticks[p] (-) SetToBag({j})

\* the initial fetchMarketData of initializePairMonitoring returns no data in
\* this step
InitFetchEnds == initJob.pc = "fetch" /\ initJob'.pc \notin {"fetch", "fetched"}

\* C11: a step in which a fetch fails appends nothing to any history and
\* writes nothing to the store; the failure is not thrown (start goes on to
\* register the pair's timer, an interval callback just ends), and the timers
\* and the monitoring flag, by which the pair's later ticks run, are untouched.
C11_FetchFailureSkipsTick ==
    [][ ((\E p \in PairNames : TickFetchEnds(p)) \/ InitFetchEnds) =>
            /\ priceHistory' = priceHistory
            /\ trustDB' = trustDB
            /\ timers' = timers /\ updateIntervals' = updateIntervals
            /\ isMonitoring' = isMonitoring
            /\ startPc' = startPc
            /\ InitFetchEnds => initJob'.pc = "setInterval"
      ]_vars

\* the initial fetch of a pair failed (its history is still empty), start went
\* on to register the pair's timer, and a later tick of the pair is under way
C11_Witness ==
    \E p \in DOMAIN priceHistory :
        /\ Len(priceHistory[p].prices) = 0
        /\ updateIntervals[p] # 0
        /\ isMonitoring
        /\ \E j \in BagToSet(ticks[p]) : j.pc = "fetched"

\* what the monitor holds for pair q: its history, its snapshots and alerts in
\* the store, its timer registration and its ticks in flight
PairView(q) ==
    [ history  |-> IF q \in DOMAIN priceHistory THEN << priceHistory[q] >> ELSE << >>,
      stored   |-> { << k, trustDB[k] >> :
                       k \in { x \in DOMAIN trustDB : x[1] \in {"market", "alerts"} /\ x[2] = q } },
      interval |-> updateIntervals[q],
      timers   |-> { t \in timers : t[1] = q },
      ticks    |-> ticks[q] ]

\* C12: a step of a periodic tick of pair p, a failing one included, changes
\* nothing of another pair q (history, stored snapshots and alerts, timer
\* registration, ticks) nor what q's later ticks depend on (the monitoring
\* flag, the progress of start).
C12_TicksOfPairsIndependent ==
    [][ \A p \in PairNames :
          ticks'[p] # ticks[p] =>
             /\ \A q \in PairNames \ {p} : PairView(q)' = PairView(q)
             /\ isMonitoring' = isMonitoring
             /\ startPc' = startPc
             /\ initJob' = initJob
      ]_vars

\* both pairs are monitored and hold their first sample, and a periodic tick
\* has ended at a failed fetch: it left no sample in either history
C12_Witness ==
    \E p \in PairNames : \E q \in PairNames \ {p} :
        /\ isMonitoring /\ startPc = "done"
        /\ updateIntervals[p] # 0 /\ updateIntervals[q] # 0
        /\ Len(priceHistory[p].prices) = 1 /\ Len(priceHistory[q].prices) = 1
        /\ CurrentKey(q) \in DOMAIN trustDB
        /\ fetches = 3
        /\ ticks[p] = EmptyBag /\ ticks[q] = EmptyBag

(***************************************************************************)
(* The decision cycle over the configured pairs                            *)
(***************************************************************************)
\* C13: a decision-loop callback leaves a pair only for the next pair of the
\* list, and returns only from the last one, whatever happened at the pair
\* (a rejected read, a rejected createOrder, a rejected store write).
C13_CycleVisitsEveryPair ==
    [][ (cycles' # cycles /\ BagCardinality(cycles') <= BagCardinality(cycles)) =>
          \E cy \in BagToSet(cycles) :
             LET rest == cycles (-) SetToBag({cy}) IN
             \/ cy.idx = Len(pairs) /\ cycles' = rest
             \/ \E cy2 \in BagToSet(cycles') :
                   /\ cycles' = rest (+) SetToBag({cy2})
                   /\ \/ cy2.idx = cy.idx
                      \/ cy2 = NewCycle(cy.idx + 1)
      ]_vars

\* the only callback begun has had the order of the first pair rejected by the
\* venue and is now reading the snapshot of the second pair
C13_Witness ==
    /\ cyclesBegun = 1
    /\ lastEval.outcome = "threw"
    /\ lastEval.createFailed
    /\ lastEval.pair = pairs[1].name
    /\ \E cy \in BagToSet(cycles) : cy.idx = 2 /\ cy.pc = "get"

(***************************************************************************)
(* Shutdown and start-up                                                   *)
(***************************************************************************)
\* C14: once stop() has run, no timer of a pair is registered, no fetch
\* begins and no history receives a sample, whatever was in flight.
C14_NothingRunsAfterStop ==
    [][ stopped' =>
          /\ timers' = {}
          /\ \A p \in PairNames : updateIntervals'[p] = 0
          /\ stopped =>
                /\ fetches' = fetches
                /\ \A p \in DOMAIN priceHistory :
                      Len(priceHistory'[p].prices) <= Len(priceHistory[p].prices)
      ]_vars

\* C15: when stop() has ended, it has ended without an error, after the
\* monitor was stopped, and closePosition has been called for every tracked
\* open position, whether or not an earlier close failed.
C15_EveryPositionCloseAttempted ==
    closing.pc = "done" =>
        /\ botPc = "stopped"
        /\ stopped
        /\ closing.attempted = closing.tracked

\* C16: when start has failed nothing is left running: no timer of a pair and
\* no decision loop is registered, and neither flag is set.
C16_FailedStartLeavesNothing ==
    (startPc = "failed" \/ botPc = "failed") =>
        /\ timers = {}
        /\ \A p \in PairNames : updateIntervals[p] = 0
        /\ decisionTimers = 0
        /\ ~isMonitoring
        /\ ~isRunning

(***************************************************************************)
(* The alerts                                                              *)
(***************************************************************************)
\* the keys of the store whose value this step has set or changed
ChangedKeys ==
    { k \in DOMAIN trustDB' : k \notin DOMAIN trustDB \/ trustDB'[k] # trustDB[k] }

\* the three alert conditions of a sample, as the specification words them
PriceChangeMet(d) ==
    (d.priceChange24h > MonitoringConfig.alertThresholds.priceChange)
    \/ (0 - d.priceChange24h > MonitoringConfig.alertThresholds.priceChange)
VolumeSpikeMet(d) ==
    d.volume24h > MonitoringConfig.volumeThreshold * MonitoringConfig.alertThresholds.volumeSpike
LowLiquidityMet(d) == d.liquidity < MonitoringConfig.alertThresholds.lowLiquidity

\* the alerts of list a that have the type and the severity
AlertsOf(a, type, severity) ==
    { i \in 1..Len(a) : a[i].type = type /\ a[i].severity = severity }

\* list a holds exactly the alerts the conditions of sample d call for
AlertsAsSpecified(a, d) ==
    /\ Cardinality(AlertsOf(a, "PRICE_CHANGE", "HIGH")) = IF PriceChangeMet(d) THEN 1 ELSE 0
    /\ Cardinality(AlertsOf(a, "VOLUME_SPIKE", "MEDIUM")) = IF VolumeSpikeMet(d) THEN 1 ELSE 0
    /\ Cardinality(AlertsOf(a, "LOW_LIQUIDITY", "HIGH")) = IF LowLiquidityMet(d) THEN 1 ELSE 0
    /\ Len(a) = Cardinality(AlertsOf(a, "PRICE_CHANGE", "HIGH"))
                + Cardinality(AlertsOf(a, "VOLUME_SPIKE", "MEDIUM"))
                + Cardinality(AlertsOf(a, "LOW_LIQUIDITY", "HIGH"))

\* the interval callback j of pair p goes on as j2 in this step
TickGoesOn(p, j, j2) ==
    /\ j \in BagToSet(ticks[p])
    /\ ticks'[p] = (ticks[p] (-) SetToBag({j})) (+) SetToBag({j2})

\* C17: an evaluation produces a PRICE_CHANGE/HIGH alert iff |priceChange24h|
\* is over its threshold, a VOLUME_SPIKE/MEDIUM alert iff the volume is over
\* volumeThreshold * volumeSpike, a LOW_LIQUIDITY/HIGH alert iff the liquidity
\* is under its threshold, each at most once and nothing else: an evaluation
\* ends without alerts exactly when no condition is met, and the list it
\* stores is the one its sample calls for.
C17_AlertsMatchConditions ==
    [][ \A p \in PairNames :
          /\ \A j \in BagToSet(ticks[p]) :
                j.pc = "checkAlerts" =>
                   /\ TickGoesOn(p, j, [IdleJob EXCEPT !.pc = "truncate"]) =>
                         ~(PriceChangeMet(j.data) \/ VolumeSpikeMet(j.data)
                              \/ LowLiquidityMet(j.data))
                   /\ TickGoesOn(p, j, [j EXCEPT !.pc = "storeAlerts", !.alertKey = now']) =>
                         (PriceChangeMet(j.data) \/ VolumeSpikeMet(j.data)
                              \/ LowLiquidityMet(j.data))
          /\ \A k \in ChangedKeys :
                (k[1] = "alerts" /\ k[2] = p) =>
                   \E j \in BagToSet(ticks[p]) :
                      /\ j.pc = "storeAlerts"
                      /\ AlertsKey(p, j.alertKey) = k
                      /\ AlertsAsSpecified(trustDB'[k], j.data)
      ]_vars

\* the stored alert lists of a pair
StoredAlerts(p) ==
    { trustDB[k] : k \in { x \in DOMAIN trustDB : x[1] = "alerts" /\ x[2] = p } }

\* a list with all three alerts has been stored while an evaluation whose
\* sample meets no condition has gone on to the truncation
C17_Witness ==
    \E p \in PairNames :
        /\ \E a \in StoredAlerts(p) : Len(a) = 3
        /\ \E j \in BagToSet(ticks[p]) : j.pc = "truncate"
        /\ Len(priceHistory[p].prices) = 2

\* the number of alert conditions sample d meets
ConditionsMet(d) ==
    (IF PriceChangeMet(d) THEN 1 ELSE 0) + (IF VolumeSpikeMet(d) THEN 1 ELSE 0)
    + (IF LowLiquidityMet(d) THEN 1 ELSE 0)

\* C18: an evaluation writes to the store iff at least one condition is met:
\* with none it goes on without a write, and a write that resolves sets
\* exactly one record, alerts:{pair}:{timestamp} of an evaluation that met a
\* condition, to a list with one alert for each condition met.
C18_WritesIffConditionMet ==
    [][ /\ \A p \in PairNames : \A j \in BagToSet(ticks[p]) :
              (j.pc = "checkAlerts" /\ ConditionsMet(j.data) = 0) =>
                 /\ TickGoesOn(p, j, [IdleJob EXCEPT !.pc = "truncate"]) => ChangedKeys = {}
                 /\ \A j2 \in BagToSet(ticks'[p]) :
                       j2.pc = "storeAlerts" => ~TickGoesOn(p, j, j2)
        /\ \A p \in PairNames : \A j \in BagToSet(ticks'[p]) :
              j.pc = "storeAlerts" => ConditionsMet(j.data) > 0
        /\ ChangedKeys # {} =>
              \E p \in PairNames : \E j \in BagToSet(ticks[p]) :
                 /\ j.pc = "storeAlerts"
                 /\ ConditionsMet(j.data) > 0
                 /\ ChangedKeys = { AlertsKey(p, j.alertKey) }
                 /\ Len(trustDB'[AlertsKey(p, j.alertKey)]) = ConditionsMet(j.data)
                 /\ TickGoesOn(p, j, [IdleJob EXCEPT !.pc = "truncate"])
      ]_vars

\* one evaluation has ended without a write, the store holding no alerts of
\* the pair, while another is about to write the two alerts of its sample
C18_Witness ==
    \E p \in PairNames :
        /\ StoredAlerts(p) = {}
        /\ \E j \in BagToSet(ticks[p]) : j.pc = "truncate"
        /\ \E j \in BagToSet(ticks[p]) :
              j.pc = "storeAlerts" /\ ConditionsMet(j.data) = 2

\* the alerts of the entries of pair p in the store whose timestamp is since
\* or later, entry after entry
RECURSIVE AlertsSince(_, _, _)
AlertsSince(p, stamps, since) ==
    IF stamps = << >> THEN << >>
    ELSE LET a == trustDB[AlertsKey(p, Head(stamps))]
             in24h(x) == x.timestamp >= since
         IN  SelectSeq(a, in24h) \o AlertsSince(p, Tail(stamps), since)

\* C19: getActiveAlerts(pair), when its query resolves, returns exactly the
\* alerts persisted for that pair whose timestamp lies within the trailing 24
\* hours: all of those, and none of another pair or older.
C19_ActiveAlertsAreThoseStored ==
    [][ (activeAlerts' # activeAlerts /\ activeAlerts'.resolved) =>
           activeAlerts'.alerts =
              AlertsSince(activeAlerts'.pair,
                          Ascending({ k[3] : k \in { x \in DOMAIN trustDB :
                                         x[1] = "alerts" /\ x[2] = activeAlerts'.pair } }),
                          activeAlerts'.since)
      ]_vars

\* the keys of the alert records in the store
AlertKeys == { k \in DOMAIN trustDB : k[1] = "alerts" }

\* C20: the alert records are append-only: a record alerts:{pair}:{timestamp}
\* that is in the store stays there with the list it was written with,
\* whatever evaluation comes later, for any interleaving and any clock
\* readings, two evaluations of a pair reading the same millisecond included.
C20_AlertRecordsAppendOnly ==
    [][ \A k \in AlertKeys : k \in DOMAIN trustDB' /\ trustDB'[k] = trustDB[k] ]_vars

(***************************************************************************)
(* The configuration                                                       *)
(***************************************************************************)
\* C21: the risk configuration injected through the loaded settings is never
\* overwritten: once the bot is constructed, and after any start, decision
\* cycles and stop, config.risk is the value that was loaded.
C21_LoadedRiskKept ==
    botPc # "new" => config.risk = loadedRisk

(***************************************************************************)
(* The indicators                                                          *)
(***************************************************************************)
\* C22: calculateRSI returns a value in [0, 100] for every price sequence and
\* period >= 1, constant sequences and sequences without a losing step
\* included, and exactly 50 when the sequence has fewer than period + 1 samples.
C22_RsiInRange ==
    (calc.fn = "calculateRSI" /\ calc.period >= 1) =>
        /\ ~calc.result.nan
        /\ 0 <= calc.result.num
        /\ calc.result.num <= 100 * calc.result.den
        /\ Len(calc.prices) < calc.period + 1 => calc.result.num = 50 * calc.result.den

\* the numerator of the weighted sum the recurrence unfolds to, over
\* b^(n-1): prices[1] weighs (1-k)^(n-1) and prices[i] weighs k(1-k)^(n-i),
\* with k = a / b
RECURSIVE WeightedSum(_, _, _, _)
WeightedSum(prices, a, b, i) ==
    IF i > Len(prices) THEN 0
    ELSE (IF i = 1 THEN prices[1] * Pow(b - a, Len(prices) - 1)
                   ELSE prices[i] * a * Pow(b, i - 2) * Pow(b - a, Len(prices) - i))
         + WeightedSum(prices, a, b, i + 1)

\* the result of the last call is the last price, or what the recurrence
\* seeded with prices[0] gives over the whole sequence with k = 2/(period+1)
EmaAsSpecified ==
    IF Len(calc.prices) < calc.period
    THEN calc.result.num = calc.prices[Len(calc.prices)] * calc.result.den
    ELSE LET g == Gcd(2, calc.period + 1)
             a == 2 \div g
             b == (calc.period + 1) \div g
         IN  /\ ~calc.result.nan
             /\ calc.result.den = Pow(b, Len(calc.prices) - 1)
             /\ calc.result.num = WeightedSum(calc.prices, a, b, 1)

LevelAtIndex(level, support) ==
    \E i \in srIndices(calc.prices, calc.period) :
        /\ calc.prices[i] = level
        /\ \A j \in leftPrices(i, calc.period) \cup rightPrices(i, calc.period) :
              IF support THEN level < calc.prices[j] ELSE level > calc.prices[j]

\* C24: findSupportResistance with its default window of 20, applied to the
\* zigzag of 20 samples, returns at least one support and at least one
\* resistance, and every support (resistance) it returns is strictly below
\* (above) all the prices of the windows to its left and to its right.
C24_ZigzagLevelsFound ==
    (calc.fn = "findSupportResistance" /\ calc.prices = Zigzag
        /\ calc.period = DefaultWindow) =>
        /\ Len(calc.result.supports) >= 1
        /\ Len(calc.result.resistances) >= 1
        /\ \A k \in 1..Len(calc.result.supports) :
              LevelAtIndex(calc.result.supports[k], TRUE)
        /\ \A k \in 1..Len(calc.result.resistances) :
              LevelAtIndex(calc.result.resistances[k], FALSE)

(***************************************************************************)
(* The orders and the decision loop                                        *)
(***************************************************************************)
\* the decision-loop callbacks that call createOrder in this step
NewlySubmitting ==
    { cy \in BagToSet(cycles') : cy.pc = "createOrder" /\ cy \notin BagToSet(cycles) }

\* C25: once stop() has cleared isRunning no further order is submitted: a
\* decision cycle that is iterating the pairs when stop() is called submits
\* no order for the pairs it has not yet evaluated, and no order is submitted
\* after closeAllPositions has run.
C25_NoOrderAfterStop ==
    [][ (botPc = "stopped" /\ ~isRunning) => NewlySubmitting = {} ]_vars

\* C26: there is at most one registered decision-loop timer and at most one
\* decision cycle in flight, and once stop() has run no decision-loop timer
\* is left registered that could act after a later start().
C26_OneDecisionLoop ==
    /\ decisionTimers <= 1
    /\ BagCardinality(cycles) <= 1
    /\ botPc = "stopped" => decisionTimers = 0

(***************************************************************************)
(* The timers of the monitor                                               *)
(***************************************************************************)
\* the live timers of pair p
TimersOf(p) == { t \in timers : t[1] = p }

\* C27: after any sequence of start() and stop() calls each enabled pair has
\* at most one live fetch timer, every live timer is the one recorded for its
\* pair in updateIntervals (so that stop() cancels every timer there is), and
\* a disabled pair has neither a timer nor a history.
C27_TimersRecorded ==
    /\ \A p \in PairNames : Cardinality(TimersOf(p)) <= 1
    /\ \A t \in timers : updateIntervals[t[1]] = t[2]
    /\ \A i \in 1..Len(pairs) :
          ~pairs[i].enabled =>
             TimersOf(pairs[i].name) = {} /\ pairs[i].name \notin DOMAIN priceHistory

\* C28: every order the bot submits has side "buy": createOrder is never
\* called with side "sell", and no order the venue has accepted is a sell.
C28_OrdersAreBuys ==
    /\ \A cy \in Submitting : cy.order.side = "buy"
    /\ \A id \in DOMAIN venueOrders : venueOrders[id].side = "buy"

\* the venue has accepted an order while another cycle is calling createOrder
C28_Witness ==
    /\ DOMAIN venueOrders # {}
    /\ \E cy \in Submitting : cy.pc = "createOrder"

\* the orders of pair p the venue has accepted
OrdersOf(p) == { id \in DOMAIN venueOrders : venueOrders[id].pair = p }

\* C29: one persisted snapshot leads to at most one order: cycles that read
\* a snapshot of market:{pair}:current again, no tick having stored a new one,
\* submit no further order, so that a pair never has more accepted orders than
\* snapshots have been stored.
C29_OneOrderPerSnapshot ==
    \A p \in PairNames : Cardinality(OrdersOf(p)) <= snapshots

(***************************************************************************)
(* The current snapshot                                                    *)
(***************************************************************************)
\* C30: the snapshot under market:{pair}:current is only ever replaced by a
\* newer one: across the writes of a pair its timestamp never decreases, for
\* any interleaving of the ticks of the pair and any completion order of
\* their fetches.
C30_CurrentNeverOlder ==
    [][ \A p \in PairNames :
          (CurrentKey(p) \in DOMAIN trustDB /\ CurrentKey(p) \in DOMAIN trustDB') =>
             trustDB'[CurrentKey(p)].timestamp >= trustDB[CurrentKey(p)].timestamp
      ]_vars

=============================================================================
